---------------------------- MODULE Spec2Model ----------------------------
(***************************************************************************)
(* Model of tools/convert_oppo_luts.py: the OPPO .bin LUT to .cube         *)
(* converter.  A byte string is kept as a compact description (an explicit *)
(* prefix followed by a generated payload) and read through ByteAt/Slice,  *)
(* so that files of realistic size (up to 64^3*4 bytes plus a header) can  *)
(* be handled.  File names and byte strings are sequences of character     *)
(* codes.  A channel value v/255.0 or r/(N-1) is kept as the pair          *)
(* <<numerator, denominator>>.                                             *)
(***************************************************************************)
EXTENDS Integers, Sequences, FiniteSets, TLC

VARIABLES
    tree,              \* the files below input_dir (process_directory) or the one file given
    bin_files,         \* process_directory: the sorted list of eligible files
    pc,                \* position of the running entry point
    k,                 \* process_directory: number of files of bin_files already processed
    results_by_genre,  \* process_directory: genre -> list of {original, converted}
    failed,            \* process_directory: list of failed files
    fs,                \* files of the output directory: stem -> content
    cur,               \* the file of the last convert_bin_to_cube / parse_ms_lut_header call
    header,            \* last call: the header dict (or None / raised)
    entries,           \* last call: entries as returned by extract_lut_data
    table,             \* last call: entries as handed to write_cube_file
    ret                \* last call: what convert_bin_to_cube returned, and why

vars == <<tree, bin_files, pc, k, results_by_genre, failed, fs, cur, header,
          entries, table, ret>>

---------------------------------------------------------------------------
(* Bounds of the model.                                                    *)

\* batch runs: at most this many files below input_dir
MaxFiles == 2
\* single conversions: headerless blobs of every size 0..MaxRawSize
MaxRawSize == 260
\* header parsing: file sizes within Slack bytes of every boundary of the size rules
Slack == 1

---------------------------------------------------------------------------
(* Python built-ins used by the converter.                                 *)

Min(a, b) == IF a < b THEN a ELSE b
Max(a, b) == IF a > b THEN a ELSE b
Cube(n) == n * n * n

\* the largest integer the model holds; wider values saturate here
Huge == 2147483647

Lower(c) == IF c >= 65 /\ c <= 90 THEN c + 32 ELSE c
\* str.lower()
lower(s) == [i \in 1..Len(s) |-> Lower(s[i])]
\* bytes.startswith / str.startswith
startswith(s, p) == Len(s) >= Len(p) /\ SubSeq(s, 1, Len(p)) = p
\* str.endswith
endswith(s, p) == Len(s) >= Len(p) /\ SubSeq(s, Len(s) - Len(p) + 1, Len(s)) = p
\* the `in` operator on str
Contains(s, p) == \E i \in 1..(Len(s) - Len(p) + 1) : SubSeq(s, i, i + Len(p) - 1) = p
\* bytes.isascii()
isascii(s) == \A i \in 1..Len(s) : s[i] < 128
IsAsciiByte(b) == b < 128
\* bytes.decode('ascii', errors='ignore')
decode_ascii_ignore(s) == SelectSeq(s, IsAsciiByte)

\* data[i] of a byte string kept as [size, head, base, stride, first0, inc0, first2, inc2]:
\* the bytes of head, then zeros up to base, then records of `stride` bytes whose
\* byte 0 and byte 2 are ramps, byte 1 is 128 and byte 3 (if any) is 255.
ByteAt(data, i) ==
    IF i < Len(data.head) THEN data.head[i + 1]
    ELSE IF i < data.base THEN 0
    ELSE LET rec == (i - data.base) \div data.stride
             pos == (i - data.base) % data.stride
         IN  CASE pos = 0 -> (data.first0 + data.inc0 * rec) % 256
               [] pos = 1 -> 128
               [] pos = 2 -> (data.first2 + data.inc2 * rec) % 256
               [] OTHER -> 255

\* len(data)
len(data) == data.size
\* data[a:b] as an explicit sequence of bytes
Slice(data, a, b) == [j \in 1..(Min(b, len(data)) - a) |-> ByteAt(data, a + j - 1)]

\* struct.unpack('<I' / '<Q', bs)[0] for a slice of the right length
RECURSIVE LittleEndian(_)
LittleEndian(bs) ==
    IF bs = <<>> THEN 0
    ELSE LET hi == LittleEndian(Tail(bs))
         IN  IF hi >= 8388608 THEN Huge ELSE Head(bs) + 256 * hi

\* Path.stem: the name without its last suffix
LastDot(name) ==
    IF \E i \in 1..Len(name) : name[i] = 46
    THEN CHOOSE i \in 1..Len(name) :
            name[i] = 46 /\ \A j \in (i + 1)..Len(name) : name[j] # 46
    ELSE 0
stem(name) ==
    LET i == LastDot(name)
    IN  IF i > 1 /\ i < Len(name) THEN SubSeq(name, 1, i - 1) ELSE name

---------------------------------------------------------------------------
(* categorize_lut                                                          *)

GENRE_PATTERNS ==
  <<
    [genre |-> "Ricoh GR", patterns |-> <<
       [anchored |-> TRUE, lit |-> <<103, 114, 46>>],  \* ^gr\.
       [anchored |-> FALSE, lit |-> <<103, 114, 46, 98, 119>>],  \* gr\.bw
       [anchored |-> FALSE, lit |-> <<103, 114, 46, 104, 105>>],  \* gr\.hi
       [anchored |-> FALSE, lit |-> <<103, 114, 46, 110, 101, 103, 97>>],  \* gr\.nega
       [anchored |-> FALSE, lit |-> <<103, 114, 46, 112, 111, 115, 105>>]  \* gr\.posi
    >>],
    [genre |-> "Hasselblad Master", patterns |-> <<
       [anchored |-> FALSE, lit |-> <<114, 97, 100, 105, 97, 110, 99, 101>>],  \* radiance
       [anchored |-> FALSE, lit |-> <<115, 101, 114, 101, 110, 105, 116, 121>>],  \* serenity
       [anchored |-> FALSE, lit |-> <<101, 109, 101, 114, 97, 108, 100>>]  \* emerald
    >>],
    [genre |-> "Fujifilm", patterns |-> <<
       [anchored |-> FALSE, lit |-> <<102, 117, 106, 105>>],  \* fuji
       [anchored |-> FALSE, lit |-> <<116, 121, 112, 101, 95, 102, 117, 106, 105>>],  \* type_fuji
       [anchored |-> FALSE, lit |-> <<112, 114, 111, 118, 105, 97>>],  \* provia
       [anchored |-> FALSE, lit |-> <<118, 101, 108, 118, 105, 97>>],  \* velvia
       [anchored |-> FALSE, lit |-> <<97, 115, 116, 105, 97>>],  \* astia
       [anchored |-> FALSE, lit |-> <<97, 99, 114, 111, 115>>],  \* acros
       [anchored |-> FALSE, lit |-> <<101, 116, 101, 114, 110, 97>>],  \* eterna
       [anchored |-> FALSE, lit |-> <<99, 104, 114, 111, 109, 101>>]  \* chrome
    >>],
    [genre |-> "Kodak Film", patterns |-> <<
       [anchored |-> FALSE, lit |-> <<107, 111, 100, 97, 107>>],  \* kodak
       [anchored |-> FALSE, lit |-> <<56, 48, 48, 116>>],  \* 800t
       [anchored |-> FALSE, lit |-> <<100, 101, 108, 116, 97, 52, 48, 48>>]  \* delta400
    >>],
    [genre |-> "Cinematic (Movie)", patterns |-> <<
       [anchored |-> FALSE, lit |-> <<109, 111, 110, 101, 121, 98, 97, 108, 108>>],  \* moneyball
       [anchored |-> FALSE, lit |-> <<105, 110, 99, 101, 112, 116, 105, 111, 110>>],  \* inception
       [anchored |-> FALSE, lit |-> <<99, 121, 98, 101, 114, 112, 117, 110, 107>>],  \* cyberpunk
       [anchored |-> FALSE, lit |-> <<105, 110, 116, 101, 114, 115, 116, 101, 108, 108, 97, 114>>],  \* interstellar
       [anchored |-> FALSE, lit |-> <<110, 101, 111, 110>>],  \* neon
       [anchored |-> FALSE, lit |-> <<99, 105, 116, 121>>]  \* city
    >>],
    [genre |-> "Instagram Filters", patterns |-> <<
       [anchored |-> TRUE, lit |-> <<105, 110, 115>>],  \* ^ins
       [anchored |-> FALSE, lit |-> <<105, 110, 115, 99, 108, 97, 114, 101, 110, 100, 111, 110>>],  \* insclarendon
       [anchored |-> FALSE, lit |-> <<105, 110, 115, 106, 117, 110, 111>>],  \* insjuno
       [anchored |-> FALSE, lit |-> <<105, 110, 115, 118, 97, 108, 101, 110, 99, 105, 97>>]  \* insvalencia
    >>],
    [genre |-> "OPPO Original", patterns |-> <<
       [anchored |-> TRUE, lit |-> <<111, 112, 108, 117, 115>>],  \* ^oplus
       [anchored |-> TRUE, lit |-> <<111, 112, 112, 111>>],  \* ^oppo
       [anchored |-> TRUE, lit |-> <<111, 112, 99, 95>>]  \* ^opc_
    >>],
    [genre |-> "Black & White", patterns |-> <<
       [anchored |-> FALSE, lit |-> <<98, 45, 119>>],  \* b-w
       [anchored |-> FALSE, lit |-> <<98, 108, 97, 99, 107, 97, 110, 100, 119, 104, 105, 116, 101>>],  \* blackandwhite
       [anchored |-> FALSE, lit |-> <<109, 111, 110, 111>>],  \* mono
       [anchored |-> FALSE, lit |-> <<103, 114, 97, 121, 115, 99, 97, 108, 101>>]  \* grayscale
    >>],
    [genre |-> "Portrait", patterns |-> <<
       [anchored |-> FALSE, lit |-> <<112, 111, 114, 116, 114, 97, 105, 116>>],  \* portrait
       [anchored |-> FALSE, lit |-> <<112, 112, 49>>],  \* pp1
       [anchored |-> FALSE, lit |-> <<112, 112, 50>>],  \* pp2
       [anchored |-> FALSE, lit |-> <<112, 112, 51>>],  \* pp3
       [anchored |-> FALSE, lit |-> <<118, 48, 50>>]  \* v02
    >>],
    [genre |-> "Landscape", patterns |-> <<
       [anchored |-> FALSE, lit |-> <<108, 97, 110, 100, 115, 99, 97, 112, 101>>],  \* landscape
       [anchored |-> FALSE, lit |-> <<118, 48, 49>>],  \* v01
       [anchored |-> FALSE, lit |-> <<109, 111, 117, 110, 116, 97, 105, 110, 115>>],  \* mountains
       [anchored |-> FALSE, lit |-> <<105, 115, 108, 97, 110, 100>>],  \* island
       [anchored |-> FALSE, lit |-> <<108, 97, 107, 101>>],  \* lake
       [anchored |-> FALSE, lit |-> <<98, 101, 97, 99, 104>>],  \* beach
       [anchored |-> FALSE, lit |-> <<100, 101, 115, 101, 114, 116>>],  \* desert
       [anchored |-> FALSE, lit |-> <<102, 111, 114, 101, 115, 116>>],  \* forest
       [anchored |-> FALSE, lit |-> <<115, 101, 110, 108, 105, 110>>]  \* senlin
    >>],
    [genre |-> "Food", patterns |-> <<
       [anchored |-> FALSE, lit |-> <<102, 111, 111, 100>>],  \* food
       [anchored |-> FALSE, lit |-> <<118, 48, 51>>],  \* v03
       [anchored |-> FALSE, lit |-> <<103, 111, 117, 114, 109, 101, 116>>],  \* gourmet
       [anchored |-> FALSE, lit |-> <<109, 101, 105, 119, 101, 105>>]  \* meiwei
    >>],
    [genre |-> "Night", patterns |-> <<
       [anchored |-> FALSE, lit |-> <<110, 105, 103, 104, 116>>],  \* night
       [anchored |-> FALSE, lit |-> <<118, 48, 52>>],  \* v04
       [anchored |-> FALSE, lit |-> <<109, 111, 111, 110, 108, 105, 103, 104, 116>>]  \* moonlight
    >>],
    [genre |-> "Warm Tones", patterns |-> <<
       [anchored |-> FALSE, lit |-> <<119, 97, 114, 109>>],  \* warm
       [anchored |-> FALSE, lit |-> <<99, 111, 108, 97>>],  \* cola
       [anchored |-> FALSE, lit |-> <<99, 97, 110, 100, 121>>],  \* candy
       [anchored |-> FALSE, lit |-> <<115, 119, 101, 101, 116>>],  \* sweet
       [anchored |-> FALSE, lit |-> <<103, 111, 108, 100>>]  \* gold
    >>],
    [genre |-> "Cool Tones", patterns |-> <<
       [anchored |-> FALSE, lit |-> <<99, 111, 108, 100>>],  \* cold
       [anchored |-> FALSE, lit |-> <<99, 111, 111, 108>>],  \* cool
       [anchored |-> FALSE, lit |-> <<97, 122, 117, 114, 101>>],  \* azure
       [anchored |-> FALSE, lit |-> <<98, 108, 117, 101>>]  \* blue
    >>],
    [genre |-> "Vintage/Retro", patterns |-> <<
       [anchored |-> FALSE, lit |-> <<111, 108, 100>>],  \* old
       [anchored |-> FALSE, lit |-> <<118, 105, 110, 116, 97, 103, 101>>],  \* vintage
       [anchored |-> FALSE, lit |-> <<114, 101, 116, 114, 111>>],  \* retro
       [anchored |-> FALSE, lit |-> <<100, 114, 106, 119>>],  \* drjw
       [anchored |-> FALSE, lit |-> <<99, 99, 100>>]  \* ccd
    >>],
    [genre |-> "HDR/Video", patterns |-> <<
       [anchored |-> FALSE, lit |-> <<104, 100, 114>>],  \* hdr
       [anchored |-> FALSE, lit |-> <<108, 111, 103, 95, 118, 105, 100, 101, 111>>],  \* log_video
       [anchored |-> FALSE, lit |-> <<100, 111, 108, 98, 121>>],  \* dolby
       [anchored |-> FALSE, lit |-> <<98, 116, 50, 48, 50, 48>>],  \* bt2020
       [anchored |-> FALSE, lit |-> <<98, 116, 55, 48, 57>>],  \* bt709
       [anchored |-> FALSE, lit |-> <<112, 51, 95>>]  \* p3_
    >>],
    [genre |-> "App Filters", patterns |-> <<
       [anchored |-> FALSE, lit |-> <<98, 54, 49, 50>>],  \* b612
       [anchored |-> FALSE, lit |-> <<98, 101, 97, 117, 116, 121, 112, 108, 117, 115>>],  \* beautyplus
       [anchored |-> FALSE, lit |-> <<102, 97, 99, 101, 97, 112, 112>>],  \* faceapp
       [anchored |-> FALSE, lit |-> <<115, 110, 97, 112, 115, 101, 101, 100>>],  \* snapseed
       [anchored |-> FALSE, lit |-> <<115, 119, 101, 101, 116, 115, 110, 97, 112>>],  \* sweetsnap
       [anchored |-> FALSE, lit |-> <<121, 111, 117, 99, 97, 109>>]  \* youcam
    >>],
    [genre |-> "Artistic", patterns |-> <<
       [anchored |-> FALSE, lit |-> <<109, 111, 114, 97, 110, 100, 105>>],  \* morandi
       [anchored |-> FALSE, lit |-> <<116, 101, 120, 116, 117, 114, 101>>],  \* texture
       [anchored |-> FALSE, lit |-> <<118, 105, 118, 105, 100>>]  \* vivid
    >>],
    [genre |-> "Japanese Style", patterns |-> <<
       [anchored |-> FALSE, lit |-> <<106, 97, 112, 97, 110>>],  \* japan
       [anchored |-> FALSE, lit |-> <<106, 105, 97, 114, 105>>],  \* jiari
       [anchored |-> FALSE, lit |-> <<98, 111, 119, 117>>],  \* bowu
       [anchored |-> FALSE, lit |-> <<121, 117, 97, 110, 113, 105>>],  \* yuanqi
       [anchored |-> FALSE, lit |-> <<113, 105, 117, 114, 105>>],  \* qiuri
       [anchored |-> FALSE, lit |-> <<108, 118, 116, 117>>]  \* lvtu
    >>],
    [genre |-> "Golden Touch", patterns |-> <<
       [anchored |-> FALSE, lit |-> <<103, 116, 45>>],  \* gt-
       [anchored |-> FALSE, lit |-> <<103, 108, 111, 119>>],  \* glow
       [anchored |-> FALSE, lit |-> <<114, 111, 115, 121>>],  \* rosy
       [anchored |-> FALSE, lit |-> <<115, 116, 101, 97, 109, 105, 110, 103>>]  \* steaming
    >>]
  >>

\* re.search(pattern, basename): every pattern is a literal, some anchored by ^
re_search(pattern, basename) ==
    IF pattern.anchored THEN startswith(basename, pattern.lit)
    ELSE Contains(basename, pattern.lit)

GenreMatches(g, basename) ==
    \E p \in 1..Len(GENRE_PATTERNS[g].patterns) :
        re_search(GENRE_PATTERNS[g].patterns[p], basename)

categorize_lut(filename) ==
    LET basename == lower(filename)
    IN  IF \E g \in 1..Len(GENRE_PATTERNS) : GenreMatches(g, basename)
        THEN GENRE_PATTERNS[CHOOSE g \in 1..Len(GENRE_PATTERNS) :
                 /\ GenreMatches(g, basename)
                 /\ \A h \in 1..(g - 1) : ~GenreMatches(h, basename)].genre
        ELSE "Uncategorized"

---------------------------------------------------------------------------
(* parse_ms_lut_header                                                     *)

\* b'.MS-LUT '
MAGIC == <<46, 77, 83, 45, 76, 85, 84, 32>>

\* lines 62-81: data_offset as read from the header fields at 0x20 and 0x28
ValidOffset(off, file_size) == IF 0 < off /\ off < file_size THEN <<off>> ELSE <<>>
possible_offsets(data) ==
    IF len(data) > 48
    THEN ValidOffset(LittleEndian(Slice(data, 32, 40)), len(data))
         \o ValidOffset(LittleEndian(Slice(data, 40, 48)), len(data))
    ELSE <<>>

FirstOr0(offsets) == IF offsets # <<>> THEN offsets[1] ELSE 0
header_data_offset(data) == FirstOr0(possible_offsets(data))

\* line 98: the sizes and channel counts of the brute-force check, in loop order
BruteSizes == <<17, 32, 33, 21, 16, 25, 20, 64>>
BruteChannels == <<3, 4>>

\* lines 112-123: fallback guesses based on size
FallbackGuess(file_size) ==
    LET lut_size == IF file_size <= 16000 THEN 17
                    ELSE IF file_size <= 30000 THEN 21
                    ELSE IF file_size <= 100000 THEN 32
                    ELSE 33
        data_offset == file_size - Cube(lut_size) * 3
    IN  [lut_size |-> lut_size, channels |-> 3,
         data_offset |-> IF data_offset < 0 THEN 0 ELSE data_offset]

\* lines 97-123: the nested loops, from the n-th (size, ch) pair on, and the
\* fallback once they end with found = False
RECURSIVE BruteForce(_, _)
BruteForce(file_size, n) ==
    IF n > Len(BruteSizes) * Len(BruteChannels) THEN FallbackGuess(file_size)
    ELSE LET size == BruteSizes[((n - 1) \div Len(BruteChannels)) + 1]
             ch == BruteChannels[((n - 1) % Len(BruteChannels)) + 1]
             payload == Cube(size) * ch
             header_size == file_size - payload
         IN  IF 0 <= header_size /\ header_size < 4096
             THEN [lut_size |-> size, channels |-> ch, data_offset |-> header_size]
             ELSE BruteForce(file_size, n + 1)

\* the guess g with an offset read from the header fields kept in it
KeepOffset(g, data_offset0) ==
    IF data_offset0 # 0 THEN [g EXCEPT !.data_offset = data_offset0] ELSE g

\* variant of ResolveMagic: the brute-force and fallback paths keep an offset read
\* from the header fields instead of overwriting it
ResolveMagic_keepOffset(file_size, data_offset0) ==
    IF file_size = 14855 THEN [lut_size |-> 17, channels |-> 3, data_offset |-> 116]
    ELSE IF file_size = 98480 THEN [lut_size |-> 32, channels |-> 3, data_offset |-> 176]
    ELSE KeepOffset(BruteForce(file_size, 1), data_offset0)

\* lines 84-123: lut_size, channels and data_offset from the file size; data_offset0
\* is the value lines 62-81 left in data_offset
ResolveMagic(file_size, data_offset0) ==
    IF file_size = 14855 THEN [lut_size |-> 17, channels |-> 3, data_offset |-> 116]
    ELSE IF file_size = 98480 THEN [lut_size |-> 32, channels |-> 3, data_offset |-> 176]
    ELSE BruteForce(file_size, 1)

\* lines 133-135: the record numbers r whose bytes lie inside the file
SampledRecords(data, g) ==
    LET InFile(r) == g.data_offset + r * g.channels + 3 <= len(data)
    IN  SelectSeq([r \in 1..Min(4, g.lut_size) |-> r - 1], InFile)

\* lines 136-137: b0_vals and b2_vals as a list of pairs, for the records rs
SampleBytes(data, g, rs) ==
    [n \in 1..Len(rs) |->
        <<ByteAt(data, g.data_offset + rs[n] * g.channels),
          ByteAt(data, g.data_offset + rs[n] * g.channels + 2)>>]

\* lines 131-137
Samples(data, g) == SampleBytes(data, g, SampledRecords(data, g))

\* '.rgba.' and '.rgb.'
DOT_RGBA_DOT == <<46, 114, 103, 98, 97, 46>>
DOT_RGB_DOT == <<46, 114, 103, 98, 46>>

\* lines 139-146 with the tie counted as BGR
OrderFromSamples_ties(s, filename) ==
    IF Len(s) >= 2
    THEN s[Len(s)][2] - s[1][2] >= s[Len(s)][1] - s[1][1]
    ELSE IF filename # <<>> THEN Contains(lower(filename), DOT_RGBA_DOT) ELSE FALSE

\* lines 139-146: is_bgr from the samples s, or from the file name
OrderFromSamples(s, filename) ==
    IF Len(s) >= 2
    THEN LET b0_diff == s[Len(s)][1] - s[1][1]
             b2_diff == s[Len(s)][2] - s[1][2]
         IN  b2_diff > b0_diff
    ELSE IF filename # <<>> THEN Contains(lower(filename), DOT_RGBA_DOT) ELSE FALSE

\* variant of DetectBGR: a tie between the two deltas counts as BGR
DetectBGR_ties(data, g, filename) ==
    IF g.data_offset + g.channels * 4 <= len(data)
    THEN OrderFromSamples_ties(Samples(data, g), filename)
    ELSE FALSE

\* lines 129-146: is_bgr
DetectBGR(data, g, filename) ==
    IF g.data_offset + g.channels * 4 <= len(data)
    THEN OrderFromSamples(Samples(data, g), filename)
    ELSE FALSE

\* lines 148-155: the returned dict, g being the result of lines 84-123
HeaderDict(data, filename, g) ==
    [kind |-> "dict",
     version |-> LittleEndian(Slice(data, 8, 12)),
     lut_size |-> g.lut_size,
     file_size |-> len(data),
     data_offset |-> g.data_offset,
     channels |-> g.channels,
     bgr |-> DetectBGR(data, g, filename)]

\* the result is [kind |-> "none"] for None, [kind |-> "raise"] for the struct.error
\* of line 57, else the returned dict
parse_ms_lut_header(data, filename) ==
    IF ~startswith(Slice(data, 0, 8), MAGIC) THEN [kind |-> "none"]
    ELSE IF Len(Slice(data, 8, 12)) # 4 THEN [kind |-> "raise"]
    ELSE HeaderDict(data, filename, ResolveMagic(len(data), header_data_offset(data)))

---------------------------------------------------------------------------
(* extract_lut_data, write_cube_file                                       *)

\* lines 171-174: how many records the loop reads before it breaks
NumRead(avail, num_entries, channels) ==
    IF avail < 3 THEN 0 ELSE Min(num_entries, ((avail - 3) \div channels) + 1)

\* lines 158-193; hd is a header dict
extract_lut_data(data, hd) ==
    LET avail == Max(0, len(data) - hd.data_offset)
        n == NumRead(avail, Cube(hd.lut_size), hd.channels)
        At(i) == ByteAt(data, hd.data_offset + i)
    IN  [i \in 1..n |->
            LET offset == (i - 1) * hd.channels
                c1 == <<At(offset), 255>>
                c2 == <<At(offset + 1), 255>>
                c3 == <<At(offset + 2), 255>>
            IN  IF hd.bgr THEN <<c3, c2, c1>> ELSE <<c1, c2, c3>>]

\* f'{x:.6f}' of the value c[1]/c[2], as the number of millionths
Format6(c) == (2 * 1000000 * c[1] + c[2]) \div (2 * c[2])

\* lines 266-276: the text written, as title, size and the formatted lines
write_cube_file(es, lut_size, title) ==
    [kind |-> "cube", title |-> title, lut_3d_size |-> lut_size,
     lines |-> [i \in 1..Len(es) |->
                  <<Format6(es[i][1]), Format6(es[i][2]), Format6(es[i][3])>>]]

---------------------------------------------------------------------------
(* convert_bin_to_cube                                                     *)

\* 'LUT_3D_SIZE' and 'TITLE'
LUT_3D_SIZE == <<76, 85, 84, 95, 51, 68, 95, 83, 73, 90, 69>>
TITLE == <<84, 73, 84, 76, 69>>

\* variant of IsCubeText: the first 20 bytes must be printable (0x20..0x7E)
IsCubeText_printable(data) ==
    /\ \A i \in 1..Len(Slice(data, 0, 20)) :
          Slice(data, 0, 20)[i] >= 32 /\ Slice(data, 0, 20)[i] <= 126
    /\ LET text_start == decode_ascii_ignore(Slice(data, 0, 500))
       IN  Contains(text_start, LUT_3D_SIZE) \/ Contains(text_start, TITLE)

\* lines 286-289: the test for a file that is already a .cube text
IsCubeText(data) ==
    /\ isascii(Slice(data, 0, 20))
    /\ LET text_start == decode_ascii_ignore(Slice(data, 0, 500))
       IN  Contains(text_start, LUT_3D_SIZE) \/ Contains(text_start, TITLE)

\* variant of RoundedCubeRoot: the cube root truncated instead of rounded
RoundedCubeRoot_floor(file_size, c) ==
    CHOOSE n \in 0..(file_size + 1) :
        /\ c * Cube(n) <= file_size
        /\ file_size < c * Cube(n + 1)

\* int((file_size / c) ** (1/3) + 0.5)
RoundedCubeRoot(file_size, c) ==
    CHOOSE n \in 0..(file_size + 1) :
        /\ n > 0 => c * Cube(2 * n - 1) <= 8 * file_size
        /\ 8 * file_size < c * Cube(2 * n + 1)

\* lines 309-334: lut_size and channels of a raw file
RawGuess(file_size) ==
    IF file_size = 16384 THEN [lut_size |-> 16, channels |-> 4]
    ELSE IF file_size = 131072 THEN [lut_size |-> 32, channels |-> 4]
    ELSE IF file_size = 98304 THEN [lut_size |-> 32, channels |-> 3]
    ELSE IF file_size = 12288 THEN [lut_size |-> 16, channels |-> 3]
    ELSE LET size_c4 == RoundedCubeRoot(file_size, 4)
             size_c3 == RoundedCubeRoot(file_size, 3)
             first == IF Cube(size_c4) * 4 = file_size
                      THEN [lut_size |-> size_c4, channels |-> 4]
                      ELSE [lut_size |-> size_c3, channels |-> 3]
         IN  \* line 334 then sets channels = 3 on every path of this branch
             [first EXCEPT !.channels = 3]

\* lines 307, 337-338: is_bgr of a raw file
RawBGR(name) ==
    ~(Contains(lower(name), DOT_RGB_DOT) /\ ~Contains(lower(name), DOT_RGBA_DOT))

\* lines 302-345: the header dict made up for a raw file
RawHeader(data, name) ==
    [kind |-> "dict", lut_size |-> RawGuess(len(data)).lut_size, data_offset |-> 0,
     channels |-> RawGuess(len(data)).channels, bgr |-> RawBGR(name)]

\* variant of TooFew: a count equal to 90% of the table is refused too
TooFew_inclusive(es, lut_size) == es = <<>> \/ 10 * Len(es) <= 9 * Cube(lut_size)

\* line 355: the test that gives up on the file
TooFew(es, lut_size) == es = <<>> \/ 10 * Len(es) < 9 * Cube(lut_size)

\* variant of IdentityEntry: the entry is appended in (B, G, R) order
IdentityEntry_swapped(idx, lut_size) ==
    <<<<idx \div (lut_size * lut_size), lut_size - 1>>,
      <<(idx \div lut_size) % lut_size, lut_size - 1>>,
      <<idx % lut_size, lut_size - 1>>>>

\* lines 366-372: the identity entry appended at index idx
IdentityEntry(idx, lut_size) ==
    LET b == <<idx \div (lut_size * lut_size), lut_size - 1>>
        g == <<(idx \div lut_size) % lut_size, lut_size - 1>>
        r == <<idx % lut_size, lut_size - 1>>
    IN  <<r, g, b>>

\* lines 360-372: exactly lut_size^3 entries
Normalize(es, lut_size) ==
    LET expected == Cube(lut_size)
    IN  IF Len(es) > expected THEN SubSeq(es, 1, expected)
        ELSE [i \in 1..expected |->
                 IF i <= Len(es) THEN es[i] ELSE IdentityEntry(i - 1, lut_size)]

\* fs with the file `path` (re)written
WriteFile(files, path, content) ==
    [p \in DOMAIN files \cup {path} |-> IF p = path THEN content ELSE files[p]]

None == [kind |-> "none"]
Failure(why, files, hd, es) ==
    [success |-> FALSE, genre |-> None, output_path |-> None, why |-> why,
     fs |-> files, header |-> hd, entries |-> es, table |-> <<>>]

Written(f, files, hd, es, t) ==
    [success |-> TRUE, genre |-> categorize_lut(stem(f.name)),
     output_path |-> stem(f.name), why |-> "written",
     fs |-> WriteFile(files, stem(f.name), write_cube_file(t, hd.lut_size, stem(f.name))),
     header |-> hd, entries |-> es, table |-> t]

\* lines 355-383: the entries es checked, padded and written
ConvertEntries(f, files, hd, es) ==
    IF TooFew(es, hd.lut_size) THEN Failure("insufficient", files, hd, es)
    ELSE IF Len(es) < Cube(hd.lut_size) /\ hd.lut_size = 1
    THEN Failure("error", files, hd, es)
    ELSE IF f.io = "write" THEN Failure("error", files, hd, es)
    ELSE Written(f, files, hd, es, Normalize(es, hd.lut_size))

\* lines 347-383: with the header dict hd
ConvertHeader(f, files, hd) == ConvertEntries(f, files, hd, extract_lut_data(f.data, hd))

\* lines 300-383: with the result `parsed` of parse_ms_lut_header
ConvertParsed(f, files, parsed) ==
    IF parsed.kind = "raise" THEN Failure("error", files, parsed, <<>>)
    ELSE IF parsed.kind = "none" THEN ConvertHeader(f, files, RawHeader(f.data, f.name))
    ELSE ConvertHeader(f, files, parsed)

\* lines 299-383: the binary path; f is [dir, name, data, io], files the output directory
ConvertBinary(f, files) == ConvertParsed(f, files, parse_ms_lut_header(f.data, f.name))

\* lines 279-387
convert_bin_to_cube(f, files) ==
    IF f.io = "read" THEN Failure("error", files, None, <<>>)
    ELSE IF IsCubeText(f.data) /\ f.io # "write"
    THEN [success |-> TRUE, genre |-> categorize_lut(stem(f.name)),
          output_path |-> stem(f.name), why |-> "text",
          fs |-> WriteFile(files, stem(f.name), [kind |-> "copy", data |-> f.data]),
          header |-> None, entries |-> <<>>, table |-> <<>>]
    ELSE ConvertBinary(f, files)

---------------------------------------------------------------------------
(* Input files.  A file is [dir, name, data, io]: dir the directories below *)
(* input_dir, name the file name, data the bytes, io what the file system   *)
(* does ("ok", "read": open/read raises, "write": opening the output        *)
(* raises).                                                                  *)

Blob(size, head, base, stride, first0, inc0, first2, inc2) ==
    [size |-> size, head |-> head, base |-> base, stride |-> stride,
     first0 |-> first0, inc0 |-> inc0, first2 |-> first2, inc2 |-> inc2]

\* a headerless dump of 3-byte records
RawBlob(size, inc0, inc2) == Blob(size, <<>>, 0, 3, 0, inc0, 0, inc2)

\* n spaces
Spaces(n) == [i \in 1..n |-> 32]

\* 'TITLE "abcdefghijklmnopq"' then a newline: 20 printable bytes first
TextPrintable == <<84, 73, 84, 76, 69, 32, 34, 97, 98, 99, 100, 101, 102, 103, 104, 105, 106, 107, 108, 109, 110, 111, 112, 113, 34, 10>>
\* 'TITLE "a"', newline, 'LUT_3D_SIZE 2', newline: a newline among the first 20 bytes
TextNewline == <<84, 73, 84, 76, 69, 32, 34, 97, 34, 10, 76, 85, 84, 95, 51, 68, 95, 83, 73, 90, 69, 32, 50, 10>>
\* '# made by hand', newline, 'LUT_3D_SIZE 2', newline
TextComment == <<35, 32, 109, 97, 100, 101, 32, 98, 121, 32, 104, 97, 110, 100, 10, 76, 85, 84, 95, 51, 68, 95, 83, 73, 90, 69, 32, 50, 10>>
\* 24 printable bytes without a keyword
TextPlain == <<97, 98, 99, 100, 101, 102, 103, 104, 105, 106, 107, 108, 109, 110, 111, 112, 113, 114, 115, 116, 117, 118, 119, 120>>
\* a byte >= 0x80 among the first 20, then TITLE
TextHighEarly == <<97, 98, 99>> \o <<200>> \o <<100, 101, 102, 103, 104, 105, 106, 107, 108, 109, 110, 111, 112, 113, 114, 115, 116, 117, 118, 119, 120, 32, 84, 73, 84, 76, 69>>
\* 20 printable bytes, then TITLE cut in two by a byte >= 0x80
TextHighInside == <<97, 98, 99, 100, 101, 102, 103, 104, 105, 106, 107, 108, 109, 110, 111, 112, 113, 114, 115, 116, 117, 118, 119, 120, 32, 84, 73>> \o <<200>> \o <<84, 76, 69, 32>>
\* the magic signature followed by TITLE
TextMagic == MAGIC \o <<48, 48, 48, 48, 32, 84, 73, 84, 76, 69, 32, 34, 120, 34, 32, 114, 101, 115, 116>>
\* TITLE ending at byte 500, and TITLE ending at byte 501
TextAt500 == Spaces(495) \o TITLE
TextAt501 == Spaces(496) \o TITLE
\* a file of 5 bytes
TextShort == TITLE

TextHeads ==
    {TextPrintable, TextNewline, TextComment, TextPlain, TextHighEarly,
     TextHighInside, TextMagic, TextAt500, TextAt501, TextShort}

\* the magic signature, a version, 20 zero bytes and the two offset fields
MagicHead(off1, off2) ==
    MAGIC \o <<1, 0, 0, 0>> \o [i \in 1..20 |-> 0]
          \o <<off1 % 256, off1 \div 256, 0, 0, 0, 0, 0, 0>>
          \o <<off2 % 256, off2 \div 256, 0, 0, 0, 0, 0, 0>>

\* a magic-tagged file of `size` bytes whose records start at `base`
MagicBlob(size, off1, off2, base, stride, first0, inc0, first2, inc2) ==
    Blob(size, SubSeq(MagicHead(off1, off2), 1, Min(size, 48)),
         base, stride, first0, inc0, first2, inc2)

NameA == <<97, 46, 98, 105, 110>>
NameRGB == <<97, 46, 114, 103, 98, 46, 98, 105, 110>>
NameRGBA == <<97, 46, 114, 103, 98, 97, 46, 98, 105, 110>>
NameGR == <<103, 114, 46, 114, 103, 98, 46, 98, 105, 110>>
NameNoExt == <<97>>
NameFuji == <<70, 117, 106, 105, 95, 78, 105, 103, 104, 116, 46, 98, 105, 110>>
NameCube == <<97, 46, 99, 117, 98, 101>>
NameTxt == <<110, 111, 116, 101, 115, 46, 116, 120, 116>>
DirSub == <<115, 117, 98>>

File(dir, name, data, io) == [dir |-> dir, name |-> name, data |-> data, io |-> io]

\* payload ramps <<first0, inc0, first2, inc2>>: byte 0 ascending, byte 2 ascending,
\* both ascending alike, both moving with wrap-around
Ramps == {<<0, 1, 0, 0>>, <<0, 0, 0, 1>>, <<5, 2, 9, 2>>, <<200, 30, 10, 20>>}

\* file sizes at which the rules of parse_ms_lut_header change
SizeBoundaries ==
    {12, 48, 14855, 98480, 16000, 30000, 100000}
    \cup {Cube(BruteSizes[i]) * c + h : i \in 1..Len(BruteSizes), c \in {3, 4}, h \in {0, 4095}}
SniffSizes ==
    {b + d : b \in SizeBoundaries, d \in (0 - Slack)..Slack}

\* magic-tagged files given to parse_ms_lut_header
SniffPool ==
    {File(<<>>, name,
          MagicBlob(size, off[1], off[2], base, stride, r[1], r[2], r[3], r[4]), "ok") :
        name \in {NameA, NameRGBA}, size \in SniffSizes,
        off \in {<<0, 0>>, <<116, 0>>, <<0, 176>>, <<300, 116>>},
        base \in {0, 1, 116, 176}, stride \in {3, 4}, r \in Ramps}

\* sizes of headerless files around the 90% threshold of a 10x10x10 table
ThresholdSizes == {2697, 2699, 2700}

\* files given to convert_bin_to_cube one at a time
OnePool ==
    {File(<<>>, name, RawBlob(size, r[2], r[4]), io) :
        name \in {NameA, NameRGB, NameRGBA}, size \in (0..MaxRawSize) \cup ThresholdSizes,
        r \in {<<0, 1, 0, 0>>, <<200, 30, 10, 20>>}, io \in {"ok", "read", "write"}}
    \cup {File(<<>>, NameA, Blob(Len(h) + more, h, Len(h), 3, 0, 1, 0, 0), io) :
        h \in TextHeads, more \in {0, 30}, io \in {"ok", "write"}}
    \cup {File(<<>>, name, MagicBlob(size, 0, 0, 0, 3, 0, 1, 0, 2), "ok") :
        name \in {NameA, NameRGBA}, size \in 8..13}

\* files that may lie below input_dir in a batch run
BatchPool ==
    { File(<<>>, NameA, RawBlob(1029, 1, 0), "ok"),
      File(<<DirSub>>, NameA, RawBlob(1029, 3, 1), "ok"),
      File(<<>>, NameNoExt, RawBlob(1100, 2, 2), "ok"),
      File(<<>>, NameGR, RawBlob(1029, 1, 0), "ok"),
      File(<<DirSub>>, NameGR, RawBlob(1300, 1, 0), "ok"),
      File(<<>>, NameFuji, Blob(1200, TextNewline, 30, 3, 0, 1, 0, 0), "ok"),
      File(<<DirSub>>, NameFuji, RawBlob(1029, 1, 0), "read"),
      File(<<>>, NameRGB, RawBlob(1029, 1, 0), "write"),
      File(<<>>, NameRGBA, MagicBlob(1001, 0, 0, 48, 3, 0, 1, 0, 0), "ok"),
      File(<<>>, NameCube, Blob(1200, TextNewline, 30, 3, 0, 1, 0, 0), "ok"),
      File(<<>>, NameTxt, RawBlob(1029, 1, 0), "ok"),
      File(<<DirSub>>, NameRGB, RawBlob(1000, 1, 0), "ok") }

---------------------------------------------------------------------------
(* process_directory                                                       *)

\* Python's < on str and on lists of str
RECURSIVE StrLess(_, _)
StrLess(a, b) ==
    IF b = <<>> THEN FALSE
    ELSE IF a = <<>> THEN TRUE
    ELSE IF Head(a) # Head(b) THEN Head(a) < Head(b)
    ELSE StrLess(Tail(a), Tail(b))
RECURSIVE PartsLess(_, _)
PartsLess(a, b) ==
    IF b = <<>> THEN FALSE
    ELSE IF a = <<>> THEN TRUE
    ELSE IF Head(a) # Head(b) THEN StrLess(Head(a), Head(b))
    ELSE PartsLess(Tail(a), Tail(b))

\* Path(root) / f
PathOf(f) == f.dir \o <<f.name>>

\* sorted(bin_files)
RECURSIVE sorted(_)
sorted(S) ==
    IF S = {} THEN <<>>
    ELSE LET first == CHOOSE f \in S :
                        \A g \in S \ {f} : PartsLess(PathOf(f), PathOf(g))
         IN  <<first>> \o sorted(S \ {first})

DOT_CUBE == <<46, 99, 117, 98, 101>>
DOT_BIN == <<46, 98, 105, 110>>

\* lines 398-405: the files process_directory keeps
Eligible(f) ==
    /\ ~endswith(f.name, DOT_CUBE)
    /\ endswith(f.name, DOT_BIN) \/ ~Contains(f.name, <<46>>)
    /\ len(f.data) > 1000

NoCall == [success |-> FALSE, genre |-> None, output_path |-> None, why |-> "none"]

InitLocals ==
    /\ bin_files = <<>>
    /\ k = 0
    /\ results_by_genre = <<>>
    /\ failed = <<>>
    /\ fs = <<>>
    /\ cur = None
    /\ header = None
    /\ entries = <<>>
    /\ table = <<>>
    /\ ret = NoCall

\* a directory tree: at most MaxFiles files, no two with the same path
Init ==
    /\ tree \in {t \in SUBSET BatchPool :
                   /\ Cardinality(t) <= MaxFiles
                   /\ \A f, g \in t : PathOf(f) = PathOf(g) => f = g}
    /\ pc = "walk"
    /\ InitLocals

\* lines 393-414: collect the eligible files
Walk ==
    /\ pc = "walk"
    /\ bin_files' = sorted({f \in tree : Eligible(f)})
    /\ pc' = "loop"
    /\ UNCHANGED <<tree, k, results_by_genre, failed, fs, cur, header, entries, table, ret>>

\* results_by_genre[genre].append(item) on a defaultdict(list)
AppendResult(results, genre, item) ==
    [g \in DOMAIN results \cup {genre} |->
        IF g = genre
        THEN (IF g \in DOMAIN results THEN results[g] ELSE <<>>) \o <<item>>
        ELSE results[g]]

\* what one call of convert_bin_to_cube leaves behind
Call(f, c) ==
    /\ cur' = f
    /\ fs' = c.fs
    /\ header' = c.header
    /\ entries' = c.entries
    /\ table' = c.table
    /\ ret' = [success |-> c.success, genre |-> c.genre,
               output_path |-> c.output_path, why |-> c.why]

\* lines 420-427: the result c of the conversion of bin_file is recorded
Record(bin_file, c) ==
    IF c.success
    THEN /\ results_by_genre' =
              AppendResult(results_by_genre, c.genre,
                  [original |-> PathOf(bin_file), converted |-> c.output_path])
         /\ failed' = failed
    ELSE /\ failed' = Append(failed, PathOf(bin_file))
         /\ results_by_genre' = results_by_genre

\* the conversion of bin_file, a raised exception escaping it
ConvertAndRecord_abort(bin_file, c) ==
    /\ Call(bin_file, c)
    /\ IF ~c.success /\ c.why = "error"
       THEN pc' = "done" /\ UNCHANGED <<failed, results_by_genre>>
       ELSE pc' = pc /\ Record(bin_file, c)

\* variant of ProcessFile: a conversion that raised ends the loop unrecorded
ProcessFile_abort ==
    /\ pc = "loop"
    /\ k < Len(bin_files)
    /\ ConvertAndRecord_abort(bin_files[k + 1], convert_bin_to_cube(bin_files[k + 1], fs))
    /\ k' = k + 1
    /\ UNCHANGED <<tree, bin_files>>

\* lines 418-427: the conversion of bin_file and its bookkeeping
ConvertAndRecord(bin_file, c) == Call(bin_file, c) /\ Record(bin_file, c)

\* lines 416-427: one turn of the loop
ProcessFile ==
    /\ pc = "loop"
    /\ k < Len(bin_files)
    /\ ConvertAndRecord(bin_files[k + 1], convert_bin_to_cube(bin_files[k + 1], fs))
    /\ k' = k + 1
    /\ UNCHANGED <<tree, bin_files, pc>>

\* line 429
Return ==
    /\ pc = "loop"
    /\ k = Len(bin_files)
    /\ pc' = "done"
    /\ UNCHANGED <<tree, bin_files, k, results_by_genre, failed, fs, cur, header,
                   entries, table, ret>>

Next == Walk \/ ProcessFile \/ Return

Spec == Init /\ [][Next]_vars

---------------------------------------------------------------------------
(* convert_bin_to_cube called on one file, with an empty output directory. *)

InitOne ==
    /\ tree \in {{f} : f \in OnePool}
    /\ pc = "call"
    /\ InitLocals

ConvertOne ==
    /\ pc = "call"
    /\ \E f \in tree : Call(f, convert_bin_to_cube(f, fs))
    /\ pc' = "returned"
    /\ UNCHANGED <<tree, bin_files, k, results_by_genre, failed>>

NextOne == ConvertOne

SpecOne == InitOne /\ [][NextOne]_vars

---------------------------------------------------------------------------
(* parse_ms_lut_header called on one magic-tagged file.                    *)

InitSniff ==
    /\ tree \in {{f} : f \in SniffPool}
    /\ pc = "call"
    /\ InitLocals

SniffOne ==
    /\ pc = "call"
    /\ \E f \in tree :
          /\ cur' = f
          /\ header' = parse_ms_lut_header(f.data, f.name)
    /\ pc' = "returned"
    /\ UNCHANGED <<tree, bin_files, k, results_by_genre, failed, fs, entries, table, ret>>

NextSniff == SniffOne

SpecSniff == InitSniff /\ [][NextSniff]_vars

---------------------------------------------------------------------------
(* Properties of parse_ms_lut_header (checked under SpecSniff).            *)

Returned == pc = "returned"

\* the (gridSize, channelCount) pairs in the order the claim scans them
C1_Order ==
    <<<<17, 3>>, <<17, 4>>, <<32, 3>>, <<32, 4>>, <<33, 3>>, <<33, 4>>, <<21, 3>>, <<21, 4>>,
      <<16, 3>>, <<16, 4>>, <<25, 3>>, <<25, 4>>, <<20, 3>>, <<20, 4>>, <<64, 3>>, <<64, 4>>>>
C1_Qualifies(F, n) ==
    LET rest == F - Cube(C1_Order[n][1]) * C1_Order[n][2]
    IN  0 <= rest /\ rest < 4096
C1_Band(F) ==
    IF F <= 16000 THEN 17 ELSE IF F <= 30000 THEN 21 ELSE IF F <= 100000 THEN 32 ELSE 33
\* <<gridSize, channelCount, dataOffset>> as a function of the size F alone
C1_Expected(F) ==
    IF F = 14855 THEN <<17, 3, 116>>
    ELSE IF F = 98480 THEN <<32, 3, 176>>
    ELSE IF \E n \in 1..Len(C1_Order) : C1_Qualifies(F, n)
    THEN LET n == CHOOSE m \in 1..Len(C1_Order) :
                    C1_Qualifies(F, m) /\ \A j \in 1..(m - 1) : ~C1_Qualifies(F, j)
         IN  <<C1_Order[n][1], C1_Order[n][2], F - Cube(C1_Order[n][1]) * C1_Order[n][2]>>
    ELSE <<C1_Band(F), 3, Max(0, F - Cube(C1_Band(F)) * 3)>>

C5_Byte0(r) == ByteAt(cur.data, header.data_offset + r * header.channels)
C5_Byte2(r) == ByteAt(cur.data, header.data_offset + r * header.channels + 2)
C5_Last == Min(4, header.lut_size) - 1
C5_SamplesAvailable ==
    header.data_offset + C5_Last * header.channels + 3 <= len(cur.data) /\ C5_Last >= 1

\* C5: with samples available the byte order is BGR exactly when the change of
\* byte 2 from the first to the last sampled record exceeds the change of
\* byte 0 (a tie is RGB); byte 0 strictly increasing over 4 records with byte 2
\* constant gives RGB.
C5_ByteOrderFromSamples ==
    (Returned /\ header.kind = "dict" /\ C5_SamplesAvailable) =>
        /\ header.bgr = (C5_Byte2(C5_Last) - C5_Byte2(0) > C5_Byte0(C5_Last) - C5_Byte0(0))
        /\ ( /\ C5_Last = 3
             /\ \A r \in 0..2 : C5_Byte0(r) < C5_Byte0(r + 1)
             /\ \A r \in 0..2 : C5_Byte2(r) = C5_Byte2(r + 1) ) => ~header.bgr

\* C5 witness: an ascending byte 0 with a constant byte 2 was sampled and found RGB.
C5_Witness ==
    /\ Returned
    /\ header.kind = "dict"
    /\ C5_SamplesAvailable
    /\ C5_Last = 3
    /\ \A r \in 0..2 : C5_Byte0(r) < C5_Byte0(r + 1)
    /\ \A r \in 0..2 : C5_Byte2(r) = C5_Byte2(r + 1)
    /\ ~header.bgr

\* C4 speaks of a magic-tagged blob with fewer than 2 samples.  There is none:
\* every magic-tagged blob of 12 bytes or more passes the test of line 130 and
\* yields four samples, so the file-name fallback of lines 143-146 is never reached.
SamplingAlwaysPossible ==
    (Returned /\ len(cur.data) >= 12) =>
        /\ header.kind = "dict"
        /\ header.data_offset + header.channels * 4 <= len(cur.data)
        /\ Len(Samples(cur.data, header)) = 4

\* states in which the two deltas tie, and in which byte 2 wins
C5_TieSeen ==
    Returned /\ header.kind = "dict"
    /\ C5_Byte2(3) - C5_Byte2(0) = C5_Byte0(3) - C5_Byte0(0)
C5_BGRSeen == Returned /\ header.kind = "dict" /\ header.bgr

---------------------------------------------------------------------------
(* Properties of convert_bin_to_cube (checked under SpecOne).              *)

FileSize == len(cur.data)
HasMagic == FileSize >= 8 /\ \A i \in 1..8 : ByteAt(cur.data, i - 1) = MAGIC[i]
KnownRawSize == FileSize \in {16384, 131072, 98304, 12288}
\* the first 20 bytes are ASCII / printable ASCII
Ascii20 == \A i \in 0..(Min(20, FileSize) - 1) : ByteAt(cur.data, i) < 128
Printable20 ==
    \A i \in 0..(Min(20, FileSize) - 1) : ByteAt(cur.data, i) >= 32 /\ ByteAt(cur.data, i) <= 126
\* the ASCII-decoded first 500 bytes contain a keyword
Keyword500 ==
    LET text == decode_ascii_ignore(Slice(cur.data, 0, 500))
    IN  Contains(text, LUT_3D_SIZE) \/ Contains(text, TITLE)
\* the call got as far as resolving a raw (headerless) file
RawResolved ==
    /\ Returned
    /\ cur.io # "read"
    /\ ~HasMagic
    /\ ret.why # "text"
\* the rounded cube root of F/c, as the integer nearest to it
NearestCubeRoot(c) ==
    CHOOSE n \in 0..(FileSize + 1) :
        /\ n > 0 => c * (2 * n - 1) * (2 * n - 1) * (2 * n - 1) <= 8 * FileSize
        /\ 8 * FileSize < c * (2 * n + 1) * (2 * n + 1) * (2 * n + 1)
ExactCube(c) == \E n \in 0..FileSize : n * n <= FileSize /\ n * n * n * c = FileSize
Failed == ~ret.success /\ ret.genre = None /\ ret.output_path = None
NothingWritten == fs = <<>>

\* C2: a headerless blob of unknown size F > 0 with F = N^3*4, N the rounded
\* cube root of F/4, resolves to gridSize N with channelCount 4; otherwise to
\* channelCount 3 with the rounded cube root of F/3; dataOffset = 0.
C2_RawResolution ==
    (RawResolved /\ cur.io = "ok" /\ ~KnownRawSize /\ FileSize > 0) =>
        /\ header.kind = "dict"
        /\ header.data_offset = 0
        /\ IF NearestCubeRoot(4) * NearestCubeRoot(4) * NearestCubeRoot(4) * 4 = FileSize
           THEN header.lut_size = NearestCubeRoot(4) /\ header.channels = 4
           ELSE header.lut_size = NearestCubeRoot(3) /\ header.channels = 3

\* C3 as stated: a headerless blob whose size is neither known nor N^3*4 nor
\* N^3*3 makes the conversion fail without an output file, and so does a
\* magic-tagged blob of fewer than 12 bytes.
C3_InexactSizeFails ==
    /\ (RawResolved /\ cur.io = "ok" /\ ~KnownRawSize /\ ~ExactCube(4) /\ ~ExactCube(3)) =>
          Failed /\ NothingWritten
    /\ (Returned /\ HasMagic /\ FileSize < 12 /\ ret.why # "text") => Failed /\ NothingWritten

\* the number of complete records a raw file of F bytes holds for a table of n^3
RawRecords(n) == Min(n * n * n, FileSize \div 3)

\* C3 amended: such a headerless blob is never refused as undeterminable: it
\* resolves to the rounded cube root N of F/3 with 3 channels at offset 0, and
\* fails, writing nothing, exactly when its min(N^3, F div 3) records are none
\* or fewer than 0.9*N^3; a magic-tagged blob of fewer than 12 bytes fails.
C3_InexactSizeGuessed ==
    /\ (RawResolved /\ cur.io = "ok" /\ ~KnownRawSize /\ ~ExactCube(4) /\ ~ExactCube(3)) =>
          LET n == NearestCubeRoot(3)
              few == RawRecords(n) = 0 \/ 10 * RawRecords(n) < 9 * n * n * n
          IN  /\ header.kind = "dict"
              /\ <<header.lut_size, header.channels, header.data_offset>> = <<n, 3, 0>>
              /\ Len(entries) = RawRecords(n)
              /\ few => Failed /\ NothingWritten /\ ret.why = "insufficient"
              /\ ~few => ret.success /\ ret.why = "written" /\ stem(cur.name) \in DOMAIN fs
    /\ (Returned /\ HasMagic /\ FileSize < 12 /\ ret.why # "text") =>
          Failed /\ NothingWritten /\ ret.why = "error"

\* C3 witness: a headerless blob of inexact size that was converted and written.
C3_Witness ==
    /\ RawResolved /\ cur.io = "ok" /\ ~KnownRawSize /\ ~ExactCube(4) /\ ~ExactCube(3)
    /\ FileSize = 77
    /\ ret.success
    /\ Len(entries) = 25
    /\ Len(table) = 27

C6_MagicTextSeen == Returned /\ ret.why = "text" /\ HasMagic

N3 == header.lut_size * header.lut_size * header.lut_size

\* C7: with gridSize N >= 1 the conversion is refused, and writes nothing,
\* exactly when 10*len(entries) < 9*N^3; from 9*N^3 on it is accepted.
C7_NinetyPercent ==
    (Returned /\ header.kind = "dict" /\ header.lut_size >= 1) =>
        /\ ret.why = "insufficient" <=> 10 * Len(entries) < 9 * N3
        /\ ret.why = "insufficient" => Failed /\ NothingWritten
        /\ (10 * Len(entries) >= 9 * N3 /\ cur.io = "ok") =>
              ret.success /\ ret.why = "written" /\ stem(cur.name) \in DOMAIN fs

\* C7 witness: exactly 900 of 1000 entries were decoded and the table was accepted.
C7_Witness ==
    /\ Returned
    /\ header.kind = "dict"
    /\ header.lut_size = 10
    /\ Len(entries) = 900
    /\ ret.why = "written"

\* one entry short of the threshold was refused
C7_BelowSeen ==
    Returned /\ header.kind = "dict" /\ header.lut_size = 10 /\ Len(entries) = 899
    /\ ret.why = "insufficient"

\* C8: an accepted table has exactly N^3 entries, the decoded entries first
\* and unchanged, then the identity ramp by index (r = i mod N, g = (i div N)
\* mod N, b = i div N^2, over N-1, in R,G,B order) for either byte order; a
\* full table is passed on as it is.
C8_PaddedTable ==
    (Returned /\ ret.why = "written") =>
        LET n == header.lut_size
        IN  /\ Len(table) = N3
            /\ \A i \in 1..Len(entries) : table[i] = entries[i]
            /\ \A i \in (Len(entries) + 1)..N3 :
                  table[i] = << <<(i - 1) % n, n - 1>>,
                                <<((i - 1) \div n) % n, n - 1>>,
                                <<(i - 1) \div (n * n), n - 1>> >>
            /\ Len(entries) = N3 => table = entries

\* C8 witness: a BGR table that needed padding.
C8_Witness ==
    /\ Returned
    /\ ret.why = "written"
    /\ header.bgr
    /\ Len(entries) < N3
    /\ Len(table) = N3

\* an RGB table that needed padding
C8_RGBPaddedSeen == Returned /\ ret.why = "written" /\ ~header.bgr /\ Len(entries) < N3

---------------------------------------------------------------------------
(* Properties of process_directory (checked under Spec).                   *)

\* how often a path is recorded as converted, over all genres, and as failed
TimesConverted(p) ==
    Cardinality({<<g, i>> \in UNION {{g} \X (1..Len(results_by_genre[g])) :
                                       g \in DOMAIN results_by_genre} :
                    results_by_genre[g][i].original = p})
TimesFailed(p) == Cardinality({i \in 1..Len(failed) : failed[i] = p})
RECURSIVE SumLen(_, _)
SumLen(results, genres) ==
    IF genres = {} THEN 0
    ELSE LET g == CHOOSE x \in genres : TRUE
         IN  Len(results[g]) + SumLen(results, genres \ {g})
total_converted == SumLen(results_by_genre, DOMAIN results_by_genre)
EligiblePaths == {PathOf(f) : f \in {x \in tree : Eligible(x)}}

\* C9: after a batch every converted file's output holds what converting that
\* file alone produces, and every file's outcome is the one it has alone: no
\* conversion overwrites the output of another.
C9_OutputsIndependent ==
    pc = "done" =>
        \A i \in 1..Len(bin_files) :
            LET f == bin_files[i]
                alone == convert_bin_to_cube(f, <<>>)
            IN  /\ alone.success <=> TimesConverted(PathOf(f)) = 1
                /\ alone.success =>
                      /\ alone.output_path \in DOMAIN fs
                      /\ fs[alone.output_path] = alone.fs[alone.output_path]

\* C10: no failing file ends the batch: the loop takes every eligible file,
\* and at the end each eligible file is recorded exactly once, under one
\* genre or as failed, so converted + failed = eligible.
C10_EveryFileRecordedOnce ==
    /\ pc \in {"loop", "done"} =>
          /\ k <= Len(bin_files)
          /\ {bin_files[i] : i \in 1..Len(bin_files)} = {f \in tree : Eligible(f)}
          /\ Len(bin_files) = Cardinality(EligiblePaths)
          /\ \A i \in 1..Len(bin_files) :
                TimesConverted(PathOf(bin_files[i])) + TimesFailed(PathOf(bin_files[i]))
                   = IF i <= k THEN 1 ELSE 0
          /\ total_converted + Len(failed) = k
    /\ pc = "done" =>
          /\ k = Len(bin_files)
          /\ total_converted + Len(failed) = Cardinality(EligiblePaths)
    /\ (pc = "loop" /\ k >= 1 /\ ~ret.success) => failed[Len(failed)] = PathOf(cur)

\* C10 witness: a batch that ended after one file raised and was recorded as
\* failed and the file after it was converted.
C10_Witness ==
    /\ pc = "done"
    /\ Len(failed) = 1
    /\ total_converted = 1
    /\ failed[1] = PathOf(bin_files[1])
    /\ convert_bin_to_cube(bin_files[1], <<>>).why = "error"

\* batches that ended with a refused table, and with a file that could not be written
C10_InsufficientSeen == pc = "done" /\ ret.why = "insufficient" /\ Len(failed) >= 1
C10_WriteErrorSeen == pc = "done" /\ cur # None /\ cur.io = "write" /\ Len(failed) >= 1

=============================================================================
